---------------------------- MODULE Spec2Model ----------------------------
(***************************************************************************)
(* Duel lifecycle of src/duel_bot.py (DuelBot V4).                         *)
(*                                                                         *)
(* The persisted JSON file (load_data / save_data) is the variable store:  *)
(* players, duels, history.  Every handler works on                        *)
(* its own copy `data` obtained by load_data and writes the whole copy     *)
(* back with save_data.  python-telegram-bot runs the update handlers one  *)
(* at a time (Application.builder() without concurrent_updates), so at     *)
(* most one handler is in flight; the tasks started by asyncio.create_task *)
(* (the three timer coroutines) run whenever a handler or another task is  *)
(* suspended in an await.  Code between two awaits is one atomic step.     *)
(*                                                                         *)
(* Abstractions: a player's username is identified with the user id;       *)
(* display-only fields (names, timezone, video size in MB, dates) are left *)
(* out of the records; the schedule instant of /duel is the timestamp      *)
(* aware_dt.timestamp() itself; time is the clock value `now`, constant    *)
(* during one atomic step and during the network awaits of a handler.      *)
(* Identical pending timer tasks are kept once.  The registry              *)
(* registered_channels is only displayed (/channels, /debug) and is left   *)
(* out: whether /addchannel finds its channel new is an input.  The reply  *)
(* that precedes asyncio.create_task in /duel and /accept is part of the   *)
(* handler's step, its failure (an exception that ends the handler) an     *)
(* input.  The admin command /resetpoints is not modelled.                 *)
(***************************************************************************)
EXTENDS Integers, Sequences, FiniteSets, TLC

\* ------------------------------------------------------------------ bounds
\* user identities
Users == {1, 2}
\* chat ids, and the one a user registers as artifact channel
Chans == {11, 12}
ChansOf(u) == {10 + u}
\* the chat a user registers when it changes its artifact channel
AltChan(u) == 20 + u
\* the users who send commands: the players and one who never registers
Callers == Users \cup {Cardinality(Users) + 1}
\* the clock advances in steps of half a video timeout, MaxTicks times
MaxTicks == 2
\* at most MaxDuels duels are created (one more in the runs of SpecRematch)
MaxDuels == 1
\* at most MaxVideos arrival events are matched to an active duel
MaxVideos == 2

\* --------------------------------------------------------------- constants
DUEL_TIMEOUT == 300
ACCEPT_TIMEOUT == 300
VIDEO_MIN_SIZE == 70 * 1024 * 1024
\* timedelta(minutes=2) in cmd_duel
MinLead == 120
\* scheduled_ts - 300 in scheduled_duel_start
ReminderLead == 300
\* channel_id None / scheduled_ts None / no started_at key
NoChan == 0
NoTime == -1
PenaltyPoints == 3
points_lost == -1

TickLen == DUEL_TIMEOUT \div 2
MaxNow == MaxTicks * TickLen
\* offsets of the schedule instant from the current time offered to /duel
Leads == {MinLead - 1, MinLead, ReminderLead + 1}
\* file sizes of posted videos
Sizes == {0, VIDEO_MIN_SIZE - 1, VIDEO_MIN_SIZE}

VARIABLES
    store,      \* contents of DATA_FILE: players, duels, history
    now,        \* time.time()
    timers,     \* sleeping tasks created by asyncio.create_task
    pend,       \* the handler suspended in an await, with its local variables
    nextId,     \* number of the next duel instance (history variable)
    term,       \* per duel instance: the terminal outcomes it had while active
    nvid,       \* arrival events matched so far
    quota,      \* number of duels that may be created in this run
    mark        \* what a run of SpecScenario or SpecChannels starts from

vars == <<store, now, timers, pend, nextId, term, nvid, quota, mark>>

Idle == [op |-> "idle"]

\* -------------------------------------------------------- dict operations
Min(a, b) == IF a <= b THEN a ELSE b
Max(a, b) == IF a >= b THEN a ELSE b

\* data["duels"] is an insertion-ordered dict: a sequence of records with a key
DictHas(d, k) == \E i \in 1..Len(d) : d[i].key = k
DictIdx(d, k) == CHOOSE i \in 1..Len(d) : d[i].key = k
DictGet(d, k) == d[DictIdx(d, k)]
DictSet(d, k, v) ==
    IF DictHas(d, k) THEN [d EXCEPT ![DictIdx(d, k)] = v] ELSE Append(d, v)
DictDel(d, k) == SelectSeq(d, LAMBDA x : x.key # k)

\* a dict with unordered use (players): a function
MapSet(f, k, v) == [x \in (DOMAIN f) \cup {k} |-> IF x = k THEN v ELSE f[x]]

\* ------------------------------------------------------------- persistence
load_data == store

EmptyData ==
    [players |-> << >>, duels |-> << >>, history |-> << >>]

\* ------------------------------------------------------------------ players
NewPlayer ==
    [points |-> 0, wins |-> 0, losses |-> 0, duels_played |-> 0,
     channel_id |-> NoChan]

get_player(players, uid) ==
    IF uid \in DOMAIN players THEN players ELSE MapSet(players, uid, NewPlayer)

\* get_player_by_username: the uid registered under the name, if any
get_player_by_username(players, target) == target \in DOMAIN players

\* ------------------------------------------------------------------- /join
cmd_join(u) ==
    /\ pend = Idle
    /\ LET data == load_data IN
       IF u \in DOMAIN data.players
       THEN UNCHANGED store
       ELSE store' = [data EXCEPT !.players = get_player(@, u)]
    /\ UNCHANGED <<now, timers, pend, nextId, term, nvid, quota, mark>>

\* ------------------------------------------------ /mychannel, /addchannel
\* the new channel is also written into the duels of the player
RegisterChannelInDuels(data, u, c) ==
    [data EXCEPT
        !.players = [get_player(@, u) EXCEPT ![u].channel_id = c],
        !.duels = [i \in 1..Len(@) |->
                      IF @[i].challenger_id = u THEN [@[i] EXCEPT !.challenger_channel = c]
                      ELSE IF @[i].challenged_id = u THEN [@[i] EXCEPT !.challenged_channel = c]
                      ELSE @[i]]]

\* p["channel_id"] = chat.id, in the handler's copy of the data
RegisterChannel(data, u, c) ==
    [data EXCEPT !.players = [get_player(@, u) EXCEPT ![u].channel_id = c]]

\* data = load_data(), then the handler awaits get_chat / get_chat_member.
\* pend.data is the copy as the handler will save it: what it writes into the
\* copy after the await depends on the copy and on its arguments only.
cmd_mychannel(u, c) ==
    /\ pend = Idle
    /\ pend' = [op |-> "await", data |-> RegisterChannel(load_data, u, c)]
    /\ UNCHANGED <<store, now, timers, nextId, term, nvid, quota, mark>>

\* data = load_data(), then the handler awaits get_chat_member / get_chat;
\* the channel registry it writes to is not part of the model
cmd_addchannel ==
    /\ pend = Idle
    /\ pend' = [op |-> "await", data |-> load_data]
    /\ UNCHANGED <<store, now, timers, nextId, term, nvid, quota, mark>>

\* the awaited calls returned and the checks passed: save_data(data)
await_save ==
    /\ pend.op = "await"
    /\ store' = pend.data
    /\ pend' = Idle
    /\ UNCHANGED <<now, timers, nextId, term, nvid, quota, mark>>

\* the bot is not admin of the channel, the channel cannot be reached or is
\* registered already: the handler returns without saving
await_return ==
    /\ pend.op = "await"
    /\ pend' = Idle
    /\ UNCHANGED <<store, now, timers, nextId, term, nvid, quota, mark>>

\* the key in the order of the command: challenger first
duel_key_as_given(a, b) == <<a, b>>

\* ------------------------------------------------------------------- /duel
\* the larger identity first
duel_key_larger_first(a, b) == <<Max(a, b), Min(a, b)>>

\* f"{min(challenger.id, target_uid)}_{max(challenger.id, target_uid)}"
duel_key(a, b) == <<Min(a, b), Max(a, b)>>

\* only an instant in the past is refused
ScheduleBeforeNow(sched, t) == sched < t

\* half the lead is enough
ScheduleHalfLead(sched, t) == sched < t + MinLead \div 2

\* aware_dt < now_utc + timedelta(minutes=2)
ScheduleTooEarly(sched, t) == sched < t + MinLead

\* only a duel that still awaits its answer counts
DuelExistsPending(duels, k) == DictHas(duels, k) /\ DictGet(duels, k).status = "pending"

\* duel_key in data["duels"]
DuelExists(duels, k) == DictHas(duels, k)

\* the flags are taken over from the players: whoever has a negative score
NewDuelFlagsFromScore(k, challenger, challenger_p, target, target_p, sched, t, id) ==
    [key                |-> k,
     challenger_id      |-> challenger,
     challenger_channel |-> challenger_p.channel_id,
     challenged_id      |-> target,
     challenged_channel |-> target_p.channel_id,
     status             |-> "pending",
     created_at         |-> t,
     scheduled_ts       |-> sched,
     started_at         |-> NoTime,
     penalty_flag       |-> {u \in {challenger} : challenger_p.points < 0}
                            \cup {u \in {target} : target_p.points < 0},
     video_timestamps   |-> {},
     id                 |-> id]

\* the record written by cmd_duel; id numbers the duel instances
NewDuel(k, challenger, challenger_p, target, target_p, sched, t, id) ==
    [key                |-> k,
     challenger_id      |-> challenger,
     challenger_channel |-> challenger_p.channel_id,
     challenged_id      |-> target,
     challenged_channel |-> target_p.channel_id,
     status             |-> "pending",
     created_at         |-> t,
     scheduled_ts       |-> sched,
     started_at         |-> NoTime,
     penalty_flag       |-> {},
     video_timestamps   |-> {},
     id                 |-> id]

\* the chain without the test target_uid == challenger.id
DuelCheckSelfAllowed(data, challenger, target, sched, t) ==
    IF ~get_player_by_username(data.players, target) THEN "NoSuchPlayer"
    ELSE IF get_player(data.players, challenger)[challenger].channel_id = NoChan
         THEN "MissingArtifactChannel"
    ELSE IF data.players[target].channel_id = NoChan THEN "MissingArtifactChannel"
    ELSE IF DuelExists(data.duels, duel_key(challenger, target)) THEN "DuelAlreadyExists"
    ELSE IF sched # NoTime /\ ScheduleTooEarly(sched, t) THEN "InvalidScheduleTime"
    ELSE "ok"

\* the validation chain of cmd_duel: the reply it ends with, "ok" when it passes
DuelCheck(data, challenger, target, sched, t) ==
    IF ~get_player_by_username(data.players, target) THEN "NoSuchPlayer"
    ELSE IF target = challenger THEN "SelfChallengeNotAllowed"
    ELSE IF get_player(data.players, challenger)[challenger].channel_id = NoChan
         THEN "MissingArtifactChannel"
    ELSE IF data.players[target].channel_id = NoChan THEN "MissingArtifactChannel"
    ELSE IF DuelExists(data.duels, duel_key(challenger, target)) THEN "DuelAlreadyExists"
    ELSE IF sched # NoTime /\ ScheduleTooEarly(sched, t) THEN "InvalidScheduleTime"
    ELSE "ok"

\* data["duels"][duel_key] = {...}
DuelCreate(data, challenger, target, sched, t, id) ==
    LET players == get_player(data.players, challenger)
        k == duel_key(challenger, target)
    IN  [data EXCEPT
            !.players = players,
            !.duels = DictSet(@, k, NewDuel(k, challenger, players[challenger],
                                            target, players[target], sched, t, id))]

Timer(kind, k, due, sts) == [kind |-> kind, key |-> k, due |-> due, sts |-> sts]

AcceptTask(k, t) == Timer("accept", k, t + ACCEPT_TIMEOUT, NoTime)

\* some duel of the pair is in the store
PairHasDuel(duels, a, b) ==
    \E i \in 1..Len(duels) : {duels[i].challenger_id, duels[i].challenged_id} = {a, b}

\* sent: await reply_text(msg) returned, so asyncio.create_task is reached.
\* The runs are bounded by the number of duels created for a pair that has none.
cmd_duel(challenger, target, sched, sent) ==
    /\ pend = Idle
    /\ LET data == load_data IN
       IF DuelCheck(data, challenger, target, sched, now) # "ok"
       THEN UNCHANGED <<store, timers, nextId>>
       ELSE /\ nextId <= quota \/ PairHasDuel(data.duels, challenger, target)
            /\ store' = DuelCreate(data, challenger, target, sched, now, nextId)
            /\ nextId' = nextId + 1
            /\ timers' = IF sent
                         THEN timers \cup {AcceptTask(duel_key(challenger, target), now)}
                         ELSE timers
    /\ UNCHANGED <<now, pend, term, nvid, quota, mark>>

\* ----------------------------------------------------------------- /accept
\* first duel, in dict order, among the positions `hits`; 0 when there is none
FirstDuel(hits) ==
    IF hits = {} THEN 0 ELSE CHOOSE i \in hits : \A j \in hits : i <= j

\* either participant may answer
AwaitsAnswerOfEither(u, duel) ==
    u \in {duel.challenger_id, duel.challenged_id} /\ duel.status = "pending"

\* the status of the duel is not looked at
AwaitsAnswerAnyStatus(u, duel) == duel.challenged_id = u

\* duel["challenged_id"] == user.id and duel["status"] == "pending"
AwaitsAnswerOf(u, duel) == duel.challenged_id = u /\ duel.status = "pending"

\* the new status is not written into the duel
AcceptDuelStatusKept(duel, t) == duel

\* the duel starts at once, whatever its schedule
AcceptDuelAtOnce(duel, t) == [duel EXCEPT !.status = "active", !.started_at = t]

\* active_duel["status"] = "scheduled" | "active" (+ started_at)
AcceptDuel(duel, t) ==
    IF duel.scheduled_ts # NoTime
    THEN [duel EXCEPT !.status = "scheduled"]
    ELSE [duel EXCEPT !.status = "active", !.started_at = t]

\* the task scheduled_duel_start sleeps until the reminder when reminder_ts > now,
\* otherwise until scheduled_ts
StartTask(k, scheduled_ts, t) ==
    IF scheduled_ts - ReminderLead > t
    THEN Timer("remind", k, scheduled_ts - ReminderLead, scheduled_ts)
    ELSE Timer("start", k, scheduled_ts, scheduled_ts)

VideoTask(k, t) == Timer("video", k, t + DUEL_TIMEOUT, NoTime)

\* the task created at the end of cmd_accept
AcceptedTask(duel, t) ==
    IF duel.scheduled_ts # NoTime
    THEN StartTask(duel.key, duel.scheduled_ts, t)
    ELSE VideoTask(duel.key, t)

\* every pending duel with the same challenged player is accepted
AcceptedAllOfCaller(data, i, t) ==
    [data EXCEPT
        !.duels = [j \in 1..Len(@) |->
                      IF AwaitsAnswerOf(data.duels[i].challenged_id, @[j])
                      THEN AcceptDuel(@[j], t) ELSE @[j]]]

\* the data after the change of active_duel, the duel found by the loop
Accepted(data, i, t) == [data EXCEPT !.duels[i] = AcceptDuel(@, t)]

cmd_accept(u, sent) ==
    /\ pend = Idle
    /\ LET data == load_data
           i == FirstDuel({j \in 1..Len(data.duels) : AwaitsAnswerOf(u, data.duels[j])})
       IN  IF i = 0
           THEN UNCHANGED <<store, timers>>
           ELSE /\ store' = Accepted(data, i, now)
                /\ timers' = IF sent
                             THEN timers \cup {AcceptedTask(data.duels[i], now)}
                             ELSE timers
    /\ UNCHANGED <<now, pend, nextId, term, nvid, quota, mark>>

\* ------------------------------------------------------- /decline, /cancel
\* history variable: one more terminal outcome of an instance that was active
Ended(duel, outcome) ==
    IF duel.status = "active"
    THEN [term EXCEPT ![duel.id] = Append(@, outcome)]
    ELSE term

cmd_decline(u) ==
    /\ pend = Idle
    /\ LET data == load_data
           i == FirstDuel({j \in 1..Len(data.duels) : AwaitsAnswerOf(u, data.duels[j])})
       IN  IF i = 0
           THEN UNCHANGED store
           ELSE store' = [data EXCEPT !.duels = DictDel(@, data.duels[i].key)]
    /\ UNCHANGED <<now, timers, pend, nextId, term, nvid, quota, mark>>

\* user.id in [duel["challenger_id"], duel["challenged_id"]]
IsParticipant(u, duel) == u \in {duel.challenger_id, duel.challenged_id}

\* who cancels an active duel loses it: a point less, a loss more
RemoveDuelAsForfeit(data, i, u) ==
    [data EXCEPT
        !.duels = DictDel(@, data.duels[i].key),
        !.players = IF data.duels[i].status = "active"
                    THEN [get_player(@, u) EXCEPT ![u].points = @ - 1,
                                                  ![u].losses = @ + 1]
                    ELSE @]

\* del data["duels"][key] of /cancel
RemoveDuel(data, i, u) == [data EXCEPT !.duels = DictDel(@, data.duels[i].key)]

cmd_cancel(u) ==
    /\ pend = Idle
    /\ LET data == load_data
           i == FirstDuel({j \in 1..Len(data.duels) : IsParticipant(u, data.duels[j])})
       IN  IF i = 0
           THEN UNCHANGED <<store, term>>
           ELSE /\ store' = RemoveDuel(data, i, u)
                /\ term' = Ended(data.duels[i], "cancelled")
    /\ UNCHANGED <<now, timers, pend, nextId, nvid, quota, mark>>

\* ------------------------------------------------------------ handle_video
\* the status of the duel is not looked at
WatchesAnyStatus(chat_id, duel) ==
    chat_id \in {duel.challenger_channel, duel.challenged_channel}

\* duel["status"] == "active" and chat_id in [challenger_channel, challenged_channel]
Watches(chat_id, duel) ==
    /\ duel.status = "active"
    /\ chat_id \in {duel.challenger_channel, duel.challenged_channel}

\* the player identified by the channel
Poster(chat_id, duel) ==
    IF chat_id = duel.challenger_channel THEN duel.challenger_id ELSE duel.challenged_id

Opponent(chat_id, duel) ==
    IF chat_id = duel.challenger_channel THEN duel.challenged_id ELSE duel.challenger_id

is_big(video_size) == video_size >= VIDEO_MIN_SIZE

\* duel["video_timestamps"][str(poster_id)] = {...}
RecordArrival(duel, poster) ==
    [duel EXCEPT !.video_timestamps = @ \cup {poster}]

\* a poster with a recorded arrival is not penalized again
PenalizeOnce(data, i, poster) ==
    IF poster \in data.duels[i].video_timestamps
    THEN data
    ELSE [data EXCEPT
            !.duels[i] = [RecordArrival(@, poster) EXCEPT !.penalty_flag = @ \cup {poster}],
            !.players = [get_player(@, poster) EXCEPT ![poster].points = @ - PenaltyPoints]]

\* the penalty is applied but its flag is not set
PenalizeNoFlag(data, i, poster) ==
    [data EXCEPT
        !.duels[i] = RecordArrival(@, poster),
        !.players = [get_player(@, poster) EXCEPT ![poster].points = @ - PenaltyPoints]]

\* the penalty is also counted as a lost duel
PenalizeCountingLoss(data, i, poster) ==
    [data EXCEPT
        !.duels[i] = [RecordArrival(@, poster) EXCEPT !.penalty_flag = @ \cup {poster}],
        !.players = [get_player(@, poster) EXCEPT ![poster].points = @ - PenaltyPoints,
                                                  ![poster].losses = @ + 1,
                                                  ![poster].duels_played = @ + 1]]

\* the penalized poster forfeits: the duel is deleted
PenalizeForfeit(data, i, poster) ==
    [data EXCEPT
        !.duels = DictDel(@, data.duels[i].key),
        !.players = [get_player(@, poster) EXCEPT ![poster].points = @ - PenaltyPoints]]

\* the poster is flagged in every active duel it takes part in
PenalizeInAllDuels(data, i, poster) ==
    [data EXCEPT
        !.duels = [j \in 1..Len(@) |->
                      IF @[j].status = "active"
                         /\ poster \in {@[j].challenger_id, @[j].challenged_id}
                      THEN [RecordArrival(@[j], poster) EXCEPT !.penalty_flag = @ \cup {poster}]
                      ELSE @[j]],
        !.players = [get_player(@, poster) EXCEPT ![poster].points = @ - PenaltyPoints]]

\* small video: penalty flag, -3 points, the duel stays
Penalize(data, i, poster) ==
    [data EXCEPT
        !.duels[i] = [RecordArrival(@, poster) EXCEPT !.penalty_flag = @ \cup {poster}],
        !.players = [get_player(@, poster) EXCEPT ![poster].points = @ - PenaltyPoints]]

\* no comeback bonus
points_won_flat(duel, poster) == 3

\* points_won = 6 if had_penalty else 3
points_won(duel, poster) == IF poster \in duel.penalty_flag THEN 6 ELSE 3

\* int(now_ts - duel.get("started_at", now_ts))
Elapsed(duel, t) == IF duel.started_at = NoTime THEN 0 ELSE t - duel.started_at

\* the loser's defeat is counted but costs no point
ScoreWinnerOnly(players, poster, opponent, won) ==
    LET ps == get_player(get_player(players, poster), opponent)
        p1 == [ps EXCEPT ![poster].points = @ + won,
                         ![poster].wins = @ + 1,
                         ![poster].duels_played = @ + 1]
    IN  [p1 EXCEPT ![opponent].losses = @ + 1,
                   ![opponent].duels_played = @ + 1]

\* the defeat is not counted among the loser's duels
ScoreLossUnplayed(players, poster, opponent, won) ==
    LET ps == get_player(get_player(players, poster), opponent)
        p1 == [ps EXCEPT ![poster].points = @ + won,
                         ![poster].wins = @ + 1,
                         ![poster].duels_played = @ + 1]
    IN  [p1 EXCEPT ![opponent].points = @ + points_lost,
                   ![opponent].losses = @ + 1]

\* the players after a victory of poster over opponent
Score(players, poster, opponent, won) ==
    LET ps == get_player(get_player(players, poster), opponent)
        p1 == [ps EXCEPT ![poster].points = @ + won,
                         ![poster].wins = @ + 1,
                         ![poster].duels_played = @ + 1]
    IN  [p1 EXCEPT ![opponent].points = @ + points_lost,
                   ![opponent].losses = @ + 1,
                   ![opponent].duels_played = @ + 1]

\* the settled duel is left in the store
SettleKeepingDuel(data, i, poster, opponent, t) ==
    LET duel == data.duels[i]
        won  == points_won(duel, poster)
    IN  [data EXCEPT
            !.players = Score(@, poster, opponent, won),
            !.history = Append(@, [winner |-> poster, loser |-> opponent,
                                   points_won |-> won,
                                   elapsed_sec |-> Elapsed(duel, t)])]

\* the result is logged twice, once for each player
SettleLoggingBoth(data, i, poster, opponent, t) ==
    LET duel  == data.duels[i]
        won   == points_won(duel, poster)
        entry == [winner |-> poster, loser |-> opponent, points_won |-> won,
                  elapsed_sec |-> Elapsed(duel, t)]
    IN  [data EXCEPT
            !.players = Score(@, poster, opponent, won),
            !.history = Append(Append(@, entry), entry),
            !.duels = DictDel(@, duel.key)]

\* big video: scores, history entry, the duel is deleted
Settle(data, i, poster, opponent, t) ==
    LET duel == data.duels[i]
        won  == points_won(duel, poster)
    IN  [data EXCEPT
            !.players = Score(@, poster, opponent, won),
            !.history = Append(@, [winner |-> poster, loser |-> opponent,
                                   points_won |-> won,
                                   elapsed_sec |-> Elapsed(duel, t)]),
            !.duels = DictDel(@, duel.key)]

\* a video of size 0, or on a chat no active duel watches, changes nothing
handle_video(chat_id, video_size) ==
    /\ pend = Idle
    /\ LET data == load_data
           i == FirstDuel({j \in 1..Len(data.duels) : Watches(chat_id, data.duels[j])})
       IN  IF video_size = 0 \/ i = 0
           THEN UNCHANGED <<store, term, nvid>>
           ELSE /\ nvid < MaxVideos
                /\ nvid' = nvid + 1
                /\ LET duel     == data.duels[i]
                       poster   == Poster(chat_id, duel)
                       opponent == Opponent(chat_id, duel)
                   IN  IF ~is_big(video_size)
                       THEN /\ store' = Penalize(data, i, poster)
                            /\ UNCHANGED term
                       ELSE /\ store' = Settle(data, i, poster, opponent, now)
                            /\ term' = Ended(duel, "settled")
    /\ UNCHANGED <<now, timers, pend, nextId, quota, mark>>

\* ------------------------------------------------------------------ timers
\* asyncio.sleep(d) returns no earlier than d seconds after the call
Due(tm) == tm \in timers /\ now >= tm.due

\* the status of the duel is not looked at
StillInAnyStatus(duels, k, status) == DictHas(duels, k)

\* duel_key in data["duels"] and its status is the one the task waits for
StillIn(duels, k, status) == DictHas(duels, k) /\ DictGet(duels, k).status = status

\* the removal gives the penalties of the duel back
TimeoutRemoveRefund(data, k) ==
    LET flagged == DictGet(data.duels, k).penalty_flag
    IN  [data EXCEPT
            !.duels = DictDel(@, k),
            !.players = [u \in DOMAIN @ |->
                            IF u \in flagged
                            THEN [@[u] EXCEPT !.points = @ + PenaltyPoints]
                            ELSE @[u]]]

\* del data["duels"][duel_key] of the two timeout tasks
TimeoutRemove(data, k) == [data EXCEPT !.duels = DictDel(@, k)]

duel_accept_timeout(tm) ==
    /\ Due(tm) /\ tm.kind = "accept"
    /\ timers' = timers \ {tm}
    /\ LET data == load_data IN
       IF StillIn(data.duels, tm.key, "pending")
       THEN store' = TimeoutRemove(data, tm.key)
       ELSE UNCHANGED store
    /\ UNCHANGED <<now, pend, nextId, term, nvid, quota, mark>>

duel_video_timeout(tm) ==
    /\ Due(tm) /\ tm.kind = "video"
    /\ timers' = timers \ {tm}
    /\ LET data == load_data IN
       IF StillIn(data.duels, tm.key, "active")
       THEN /\ store' = TimeoutRemove(data, tm.key)
            /\ term' = Ended(DictGet(data.duels, tm.key), "timed out")
       ELSE UNCHANGED <<store, term>>
    /\ UNCHANGED <<now, pend, nextId, nvid, quota, mark>>

\* scheduled_duel_start, woken for the reminder: it goes on only if the duel is
\* still scheduled, and then sleeps until scheduled_ts
scheduled_duel_reminder(tm) ==
    /\ Due(tm) /\ tm.kind = "remind"
    /\ timers' = IF StillIn(load_data.duels, tm.key, "scheduled")
                 THEN (timers \ {tm}) \cup {Timer("start", tm.key, tm.sts, tm.sts)}
                 ELSE timers \ {tm}
    /\ UNCHANGED <<store, now, pend, nextId, term, nvid, quota, mark>>

\* duel["status"] = "active"; duel["started_at"] = time.time()
Activate(data, k, t) ==
    [data EXCEPT !.duels[DictIdx(data.duels, k)] =
                     [@ EXCEPT !.status = "active", !.started_at = t]]

\* scheduled_duel_start, woken at scheduled_ts
scheduled_duel_start(tm) ==
    /\ Due(tm) /\ tm.kind = "start"
    /\ LET data == load_data IN
       IF StillIn(data.duels, tm.key, "scheduled")
       THEN /\ store' = Activate(data, tm.key, now)
            /\ timers' = (timers \ {tm}) \cup {VideoTask(tm.key, now)}
       ELSE /\ timers' = timers \ {tm}
            /\ UNCHANGED store
    /\ UNCHANGED <<now, pend, nextId, term, nvid, quota, mark>>

\* ------------------------------------------------------------------- clock
Tick ==
    /\ pend = Idle
    /\ now + TickLen <= MaxNow
    /\ now' = now + TickLen
    /\ UNCHANGED <<store, timers, pend, nextId, term, nvid, quota, mark>>

\* ----------------------------------------------------------- specification
Init ==
    /\ store = EmptyData
    /\ now = 0
    /\ timers = {}
    /\ pend = Idle
    /\ nextId = 1
    /\ term = [i \in 1..(MaxDuels + 1) |-> << >>]
    /\ nvid = 0
    /\ quota = MaxDuels
    /\ mark = << >>

\* a run in which the pair may duel once more
InitRematch ==
    /\ store = EmptyData
    /\ now = 0
    /\ timers = {}
    /\ pend = Idle
    /\ nextId = 1
    /\ term = [i \in 1..(MaxDuels + 1) |-> << >>]
    /\ nvid = 0
    /\ quota = MaxDuels + 1
    /\ mark = << >>

\* schedule instants offered to /duel; NoTime: no time argument
Scheds == {NoTime} \cup {now + l : l \in Leads}

Next ==
    \/ \E u \in Users : cmd_join(u)
    \/ \E u \in Users : \E c \in ChansOf(u) : cmd_mychannel(u, c)
    \/ cmd_addchannel
    \/ await_save
    \/ await_return
    \/ \E a \in Users, b \in Users, s \in Scheds, sent \in BOOLEAN : cmd_duel(a, b, s, sent)
    \/ \E u \in Callers, sent \in BOOLEAN : cmd_accept(u, sent)
    \/ \E u \in Callers : cmd_decline(u)
    \/ \E u \in Callers : cmd_cancel(u)
    \/ \E c \in Chans, z \in Sizes : handle_video(c, z)
    \/ \E tm \in timers : duel_accept_timeout(tm)
    \/ \E tm \in timers : duel_video_timeout(tm)
    \/ \E tm \in timers : scheduled_duel_reminder(tm)
    \/ \E tm \in timers : scheduled_duel_start(tm)
    \/ Tick

Spec == Init /\ [][Next]_vars

SpecRematch == InitRematch /\ [][Next]_vars

\* --------------------------------------------------------------- scenario
\* Runs of the scenario of C9: an active duel of two players with earlier
\* results, in which one participant posts a small and then a big video.

Rec(p, w, l) == [points |-> p, wins |-> w, losses |-> l, duels_played |-> w + l]

Won(w, l, pts) == [winner |-> w, loser |-> l, points_won |-> pts, elapsed_sec |-> 0]

\* what the two players may have behind them: nothing; a won b (plainly, or
\* after a penalty); b won a (a penalized or not); a penalty of either or both
\* in a duel that timed out; one victory each
Pasts(a, b) ==
    {[pa |-> Rec(0, 0, 0),  pb |-> Rec(0, 0, 0),  history |-> << >>],
     [pa |-> Rec(3, 1, 0),  pb |-> Rec(-1, 0, 1), history |-> <<Won(a, b, 3)>>],
     [pa |-> Rec(3, 1, 0),  pb |-> Rec(-1, 0, 1), history |-> <<Won(a, b, 6)>>],
     [pa |-> Rec(-1, 0, 1), pb |-> Rec(3, 1, 0),  history |-> <<Won(b, a, 3)>>],
     [pa |-> Rec(-4, 0, 1), pb |-> Rec(3, 1, 0),  history |-> <<Won(b, a, 3)>>],
     [pa |-> Rec(-3, 0, 0), pb |-> Rec(0, 0, 0),  history |-> << >>],
     [pa |-> Rec(0, 0, 0),  pb |-> Rec(-3, 0, 0), history |-> << >>],
     [pa |-> Rec(-3, 0, 0), pb |-> Rec(-3, 0, 0), history |-> << >>],
     [pa |-> Rec(2, 1, 1),  pb |-> Rec(2, 1, 1),
      history |-> <<Won(a, b, 3), Won(b, a, 3)>>]}

PlayerWith(past, c) ==
    [points |-> past.points, wins |-> past.wins, losses |-> past.losses,
     duels_played |-> past.duels_played, channel_id |-> c]

\* a is the participant who will post, b the opponent; either is the challenger
InitScenario ==
    \E a \in Users, b \in Users, challenges \in BOOLEAN, t \in {0, TickLen} :
      \E past \in Pasts(a, b) :
        /\ a # b
        /\ LET players == [u \in {a, b} |->
                              IF u = a THEN PlayerWith(past.pa, 10 + a)
                                       ELSE PlayerWith(past.pb, 10 + b)]
               before  == [players |-> players, duels |-> << >>,
                           history |-> past.history]
               created == IF challenges
                          THEN DuelCreate(before, a, b, NoTime, 0, 1)
                          ELSE DuelCreate(before, b, a, NoTime, 0, 1)
           IN  /\ store = [created EXCEPT !.duels[1] = AcceptDuel(@, t)]
               /\ timers = {AcceptTask(duel_key(a, b), 0), VideoTask(duel_key(a, b), t)}
               /\ mark = [poster |-> a, opponent |-> b, players |-> players,
                          history |-> past.history]
        /\ now = t
        /\ pend = Idle
        /\ nextId = 2
        /\ term = [i \in 1..(MaxDuels + 1) |-> << >>]
        /\ nvid = 0
        /\ quota = MaxDuels

PosterChannel == store.players[mark.poster].channel_id

ScenarioSmall == nvid = 0 /\ handle_video(PosterChannel, VIDEO_MIN_SIZE - 1)

ScenarioBig == nvid = 1 /\ handle_video(PosterChannel, VIDEO_MIN_SIZE)

NextScenario == ScenarioSmall \/ ScenarioBig

SpecScenario == InitScenario /\ [][NextScenario]_vars

\* ------------------------------------------------------- channel changes
\* Runs that start when a duel of two players with channels has been created,
\* and perhaps accepted, in which the participants change their channels.
AltChans == {AltChan(u) : u \in Users}

InitChannels ==
    \E a \in Users, b \in Users, accepted \in BOOLEAN :
        /\ a # b
        /\ LET players == [u \in {a, b} |-> [NewPlayer EXCEPT !.channel_id = 10 + u]]
               before  == [players |-> players, duels |-> << >>, history |-> << >>]
               created == DuelCreate(before, a, b, NoTime, 0, 1)
           IN  /\ store = IF accepted
                          THEN [created EXCEPT !.duels[1] = AcceptDuel(@, 0)]
                          ELSE created
               /\ timers = IF accepted
                           THEN {AcceptTask(duel_key(a, b), 0), VideoTask(duel_key(a, b), 0)}
                           ELSE {AcceptTask(duel_key(a, b), 0)}
               /\ mark = [challenger_channel |-> created.duels[1].challenger_channel,
                          challenged_channel |-> created.duels[1].challenged_channel]
        /\ now = 0
        /\ pend = Idle
        /\ nextId = 2
        /\ term = [i \in 1..(MaxDuels + 1) |-> << >>]
        /\ nvid = 0
        /\ quota = MaxDuels

NextChannels ==
    \/ \E u \in Users : \E c \in ChansOf(u) \cup {AltChan(u)} : cmd_mychannel(u, c)
    \/ await_save
    \/ await_return
    \/ \E u \in Users, sent \in BOOLEAN : cmd_accept(u, sent)
    \/ \E c \in Chans \cup AltChans, z \in Sizes : handle_video(c, z)
    \/ \E tm \in timers : duel_accept_timeout(tm)
    \/ \E tm \in timers : duel_video_timeout(tm)
    \/ Tick

SpecChannels == InitChannels /\ [][NextChannels]_vars

\* ------------------------------------------------------------------ league
\* Runs with three players, each registered with a channel of its own (by
\* /join and /mychannel), so that a player can have duels with two opponents
\* at a time, and a pair can duel again.  The duels are challenges without a
\* schedule instant whose replies are delivered; the runs are the commands and
\* arrivals that happen before any task wakes up.
League == {1, 2, 3}

LeagueChans == {10 + u : u \in League}

InitLeague ==
    /\ store = [players |-> [u \in League |-> [NewPlayer EXCEPT !.channel_id = 10 + u]],
                duels |-> << >>, history |-> << >>]
    /\ now = 0
    /\ timers = {}
    /\ pend = Idle
    /\ nextId = 1
    /\ term = [i \in 1..(MaxDuels + 1) |-> << >>]
    /\ nvid = 0
    /\ quota = MaxDuels + 1
    /\ mark = << >>

NextLeague ==
    \/ \E a \in League, b \in League : cmd_duel(a, b, NoTime, TRUE)
    \/ \E u \in League : cmd_accept(u, TRUE)
    \/ \E u \in League : cmd_decline(u)
    \/ \E u \in League : cmd_cancel(u)
    \/ \E c \in LeagueChans, z \in Sizes : handle_video(c, z)

SpecLeague == InitLeague /\ [][NextLeague]_vars

\* ---------------------------------------------------------- shared channel
\* Runs in which a player registers any of the chats as its channel: neither
\* path of /mychannel looks at who else has registered the chat.
NextShared ==
    \/ \E u \in Users : \E c \in Chans : cmd_mychannel(u, c)
    \/ await_save
    \/ await_return
    \/ \E a \in Users, b \in Users : cmd_duel(a, b, NoTime, TRUE)
    \/ \E u \in Users : cmd_accept(u, TRUE)
    \/ \E c \in Chans, z \in Sizes : handle_video(c, z)

SpecShared == Init /\ [][NextShared]_vars

\* ------------------------------------------------------------------ claims
Players == DOMAIN store.players

Points(u) == store.players[u].points

\* a step appended an entry to the history: a settlement
Settles == Len(store'.history) = Len(store.history) + 1

LastEntry == store'.history[Len(store'.history)]

\* the duels of the store that a settlement with entry e removed
SettledBy(e) ==
    {i \in 1..Len(store.duels) :
        /\ store.duels[i].status = "active"
        /\ {store.duels[i].challenger_id, store.duels[i].challenged_id}
             = {e.winner, e.loser}
        /\ ~DictHas(store'.duels, store.duels[i].key)}

\* the active duel an arrival on chat_id is matched to holds an arrival of its poster
HasArrival(chat_id) ==
    LET i == FirstDuel({j \in 1..Len(store.duels) : Watches(chat_id, store.duels[j])})
    IN  i # 0 /\ Poster(chat_id, store.duels[i]) \in store.duels[i].video_timestamps

\* C1: every duel in the store is pending, scheduled or active, and no two
\* duels in the store are between the same unordered pair of players.
PairExclusivity ==
    \A i, j \in 1..Len(store.duels) :
        /\ store.duels[i].status \in {"pending", "scheduled", "active"}
        /\ ({store.duels[i].challenger_id, store.duels[i].challenged_id}
              = {store.duels[j].challenger_id, store.duels[j].challenged_id}
            => i = j)

\* a duel of player 2 against player 1 is in the store, stored under <<1, 2>>
PairDuelStored ==
    \E i \in 1..Len(store.duels) :
        /\ store.duels[i].challenger_id = 2
        /\ store.duels[i].challenged_id = 1
        /\ store.duels[i].key = <<1, 2>>

\* C2: no duel instance has more than one terminal outcome (settled, timed
\* out, cancelled) after it became active.
SettlementExactlyOnce == \A id \in DOMAIN term : Len(term[id]) <= 1

\* C3: a settlement awards the winner 6 points if the winner's penalty flag is
\* set in the duel (the flags are the recorded small arrivals), 3 otherwise,
\* and adds exactly that amount to the winner's score.
ComebackBonus ==
    [][Settles =>
        \E i \in SettledBy(LastEntry) :
            LET duel == store.duels[i]
                w    == LastEntry.winner
            IN  /\ duel.penalty_flag = duel.video_timestamps
                /\ LastEntry.points_won = IF w \in duel.penalty_flag THEN 6 ELSE 3
                /\ store'.players[w].points = Points(w) + LastEntry.points_won]_vars

\* a comeback victory is in the history
ComebackWon == \E i \in 1..Len(store.history) : store.history[i].points_won = 6

\* C4: a settlement takes exactly 1 point from the loser, who is the other
\* participant of the settled duel.
LoserPenalty ==
    [][Settles =>
        /\ SettledBy(LastEntry) # {}
        /\ LastEntry.loser # LastEntry.winner
        /\ store'.players[LastEntry.loser].points = Points(LastEntry.loser) - 1]_vars

\* a player who was penalized in the duel has lost it: -3 - 1
PenalizedLoser ==
    /\ Len(store.history) = 1
    /\ Points(store.history[1].loser) = 0 - PenaltyPoints - 1

TimeoutDraw ==
    [][\A tm \in timers :
          StillIn(store.duels, tm.key, "active") /\ duel_video_timeout(tm)
          => /\ store'.players = store.players
             /\ store'.history = store.history
             /\ ~DictHas(store'.duels, tm.key)]_vars

\* a duel timed out after a penalty, and the penalty stands
TimedOutPenaltyStands ==
    /\ \E id \in DOMAIN term : term[id] = <<"timed out">>
    /\ store.duels = << >>
    /\ store.history = << >>
    /\ \E u \in Players : Points(u) = 0 - PenaltyPoints

\* C7: a /duel with a schedule instant less than 2 minutes after the current
\* time changes neither the store nor the timers.
ScheduleLeadTime ==
    [][\/ UNCHANGED <<store, timers>>
       \/ ~\E a \in Users, b \in Users, s \in Scheds, sent \in BOOLEAN :
             s # NoTime /\ s < now + MinLead /\ cmd_duel(a, b, s, sent)]_vars

\* a challenge that passes every other check is refused for its time
TooEarlyRefused ==
    DuelCheck(store, 1, 2, now + MinLead - 1, now) = "InvalidScheduleTime"

\* C8: while a duel of the pair is in the store, a /duel of either against the
\* other ends with DuelAlreadyExists and leaves the duels as they were.
DuplicateCreation ==
    /\ [](\A a \in Users, b \in Users :
             a # b /\ PairHasDuel(store.duels, a, b)
             => \A s \in Scheds : DuelCheck(store, a, b, s, now) = "DuelAlreadyExists")
    /\ [][\/ store'.duels = store.duels /\ timers' = timers
          \/ ~\E a \in Users, b \in Users :
                /\ a # b /\ PairHasDuel(store.duels, a, b)
                /\ \E s \in Scheds, sent \in BOOLEAN : cmd_duel(a, b, s, sent)]_vars

\* a duel of the pair is stored and both directions of /duel are refused
DuplicateRefused ==
    /\ pend = Idle
    /\ PairHasDuel(store.duels, 1, 2)
    /\ DuelCheck(store, 1, 2, NoTime, now) = "DuelAlreadyExists"
    /\ DuelCheck(store, 2, 1, now + MinLead, now) = "DuelAlreadyExists"

VideoTimeoutNotEarly ==
    [][\A tm \in timers :
          StillIn(store.duels, tm.key, "active") /\ duel_video_timeout(tm)
          => now - DictGet(store.duels, tm.key).started_at >= DUEL_TIMEOUT]_vars

\* C11: the step of duel_accept_timeout that removes a pending duel happens at
\* least ACCEPT_TIMEOUT after the creation of that duel.
AcceptTimeoutNotEarly ==
    [][\A tm \in timers :
          StillIn(store.duels, tm.key, "pending") /\ duel_accept_timeout(tm)
          => now - DictGet(store.duels, tm.key).created_at >= ACCEPT_TIMEOUT]_vars

\* C12: the step of scheduled_duel_start that makes a scheduled duel active
\* happens at a time now >= the scheduled_ts of that duel.
ScheduledStartNotEarly ==
    [][\A tm \in timers :
          StillIn(store.duels, tm.key, "scheduled") /\ scheduled_duel_start(tm)
          => now >= DictGet(store.duels, tm.key).scheduled_ts]_vars

\* the status a task of this kind was started for
ArmedFor(kind) ==
    CASE kind = "accept" -> "pending"
      [] kind = "video"  -> "active"
      [] OTHER           -> "scheduled"

\* the store holds a duel under the key of the task, in the status it was started for
AsArmed(tm) ==
    \E i \in 1..Len(store.duels) :
        store.duels[i].key = tm.key /\ store.duels[i].status = ArmedFor(tm.kind)

\* the task tm wakes up and runs to its end or to its next sleep
Fires(tm) ==
    \/ duel_accept_timeout(tm)
    \/ duel_video_timeout(tm)
    \/ scheduled_duel_reminder(tm)
    \/ scheduled_duel_start(tm)

\* C13: a timer task that wakes up when the store holds no duel under its key
\* in the status it was started for changes neither the store nor the terminal
\* outcomes, and starts no further task: it just ends.
StateGuardedTimers ==
    [][\A tm \in timers :
          tm \notin timers' /\ ~AsArmed(tm) /\ Fires(tm)
          => /\ UNCHANGED <<store, term>>
             /\ timers' = timers \ {tm}]_vars

\* the video timeout of a duel that was cancelled is due
CancelledBeforeTimeout ==
    /\ store.duels = << >>
    /\ term[1] = <<"cancelled">>
    /\ \E tm \in timers : tm.kind = "video" /\ now >= tm.due

\* C14: a /accept changes the store or the timers only when the caller is the
\* challenged participant of a pending duel, and then it changes that duel
\* only, to scheduled or active; an /accept of anyone else, or when the duel
\* of the caller is scheduled or active, changes nothing.
AcceptAuthorization ==
    [][\/ UNCHANGED <<store, timers>>
       \/ \A u \in Callers, sent \in BOOLEAN :
             cmd_accept(u, sent)
             => \E i \in 1..Len(store.duels) :
                   /\ store.duels[i].challenged_id = u
                   /\ store.duels[i].status = "pending"
                   /\ Len(store'.duels) = Len(store.duels)
                   /\ store'.duels[i].status \in {"scheduled", "active"}
                   /\ \A j \in 1..Len(store.duels) : j # i => store'.duels[j] = store.duels[j]
                   /\ store'.players = store.players
                   /\ store'.history = store.history]_vars

\* a duel awaits the answer of player 1: /accept of its challenger, player 2,
\* and of the user who is no participant are to be refused
PendingAwaitsChallenged ==
    /\ pend = Idle
    /\ \E i \in 1..Len(store.duels) :
          /\ store.duels[i].status = "pending"
          /\ store.duels[i].challenger_id = 2
          /\ store.duels[i].challenged_id = 1

\* a player without artifact channel, registered or not
NoChannel(u) == u \notin Players \/ store.players[u].channel_id = NoChan

\* the reasons for which a /duel of a against b for the instant s is refused
Rejectable(a, b, s) ==
    \/ b \notin Players
    \/ a = b
    \/ NoChannel(a)
    \/ NoChannel(b)
    \/ PairHasDuel(store.duels, a, b)
    \/ s # NoTime /\ s < now + MinLead

\* C15: a /duel with an unregistered target, of a player against itself, with
\* a participant without channel, for a pair that has a duel, or for an instant
\* less than 2 minutes ahead changes neither the store nor the timers.  (By
\* its definition a /duel either leaves store, timers and nextId as they are
\* or numbers the duel it creates, so only the steps with a new number are
\* looked at.)
ValidationErrorsMutateNothing ==
    [][\/ UNCHANGED <<store, timers>>
       \/ nextId' # nextId + 1
       \/ ~\E a \in Users, b \in Users :
             \E s \in Scheds, sent \in BOOLEAN :
                Rejectable(a, b, s) /\ cmd_duel(a, b, s, sent)]_vars

\* player 1 has no channel, player 2 has one, and a duel can still be created:
\* /duel of 1 against 2, of 2 against 1 and of 2 against 2 are to be refused
RefusalsAhead ==
    /\ pend = Idle
    /\ nextId <= quota
    /\ Players = {1, 2}
    /\ store.players[1].channel_id = NoChan
    /\ store.players[2].channel_id # NoChan

\* C16: every duel in the store has the channels its participants had when it
\* was created, whatever they registered since: while it is active, a video in
\* one of these channels is attributed to the participant who had it, and a
\* video in a channel registered since is matched to no duel and changes nothing.
ChannelSnapshot ==
    /\ [](\A i \in 1..Len(store.duels) :
             LET duel == store.duels[i]
             IN  /\ duel.challenger_channel = mark.challenger_channel
                 /\ duel.challenged_channel = mark.challenged_channel
                 /\ duel.status = "active"
                    => /\ Watches(mark.challenger_channel, duel)
                       /\ Poster(mark.challenger_channel, duel) = duel.challenger_id
                       /\ Watches(mark.challenged_channel, duel)
                       /\ Poster(mark.challenged_channel, duel) = duel.challenged_id
                       /\ \A c \in AltChans : ~Watches(c, duel))
    /\ [][\A c \in AltChans, z \in Sizes : handle_video(c, z) => UNCHANGED store]_vars

\* the challenger of an active duel has registered another channel since, and
\* has been penalized for a video in the channel of the duel
PenalizedOnOldChannel ==
    \E i \in 1..Len(store.duels) :
        LET duel == store.duels[i]
        IN  /\ duel.status = "active"
            /\ store.players[duel.challenger_id].channel_id = AltChan(duel.challenger_id)
            /\ duel.challenger_channel # AltChan(duel.challenger_id)
            /\ duel.challenger_id \in duel.penalty_flag

\* C17: the save_data of /mychannel and /addchannel leaves the duels and the
\* history of the store as they are when it runs.
RegistersPlayersOnly ==
    [][await_save
       => /\ store'.duels = store.duels
          /\ store'.history = store.history]_vars

\* C18: whenever a step starts a timer task, the store written by that step
\* holds the duel of the task in the status the task is for: pending for the
\* accept timeout, scheduled for the start task, active for the video timeout.
PersistBeforeArm ==
    [][\A tm \in timers' \ timers :
          \E i \in 1..Len(store'.duels) :
             /\ store'.duels[i].key = tm.key
             /\ store'.duels[i].status = ArmedFor(tm.kind)]_vars

\* the video timeout of an active duel sleeps since the activation of the
\* duel, and the start task of a scheduled duel was started as well
ArmedForActive ==
    \E tm \in timers : \E i \in 1..Len(store.duels) :
        /\ tm.kind = "video"
        /\ store.duels[i].key = tm.key
        /\ store.duels[i].status = "active"
        /\ store.duels[i].scheduled_ts # NoTime
        /\ tm.due = store.duels[i].started_at + DUEL_TIMEOUT

\* the instance has been settled
WasSettled(id) == \E k \in 1..Len(term[id]) : term[id][k] = "settled"

\* C19: a qualifying video that changes the store is matched to an active duel
\* with that channel, makes the participant of that channel the winner and
\* removes the duel; a settled duel is not in the store any more, so that the
\* qualifying video of the other participant finds no duel and changes nothing.
FirstQualifyingWins ==
    /\ [](\A i \in 1..Len(store.duels) : ~WasSettled(store.duels[i].id))
    /\ [][\/ store' = store
          \/ \A c \in Chans :
                handle_video(c, VIDEO_MIN_SIZE)
                => \E i \in 1..Len(store.duels) :
                      LET duel == store.duels[i]
                      IN  /\ duel.status = "active"
                          /\ c \in {duel.challenger_channel, duel.challenged_channel}
                          /\ Settles
                          /\ LastEntry.winner = IF c = duel.challenger_channel
                                                THEN duel.challenger_id
                                                ELSE duel.challenged_id
                          /\ ~DictHas(store'.duels, duel.key)]_vars

\* the duel was settled without a penalty and a further video can arrive: the
\* one of the loser
SettledBeforeSecond ==
    /\ pend = Idle
    /\ nvid < MaxVideos
    /\ term[1] = <<"settled">>
    /\ Len(store.history) = 1
    /\ store.history[1].points_won = 3
    /\ Points(store.history[1].loser) = 0 - 1

\* no active duel of the store has the chat as channel of a participant
Unmatched(chat_id) ==
    ~\E i \in 1..Len(store.duels) :
        /\ store.duels[i].status = "active"
        /\ chat_id \in {store.duels[i].challenger_channel, store.duels[i].challenged_channel}

\* C20: a video posted in a chat that is the channel of no active duel, be it
\* the channel of a pending or scheduled duel or of a duel that is gone,
\* changes nothing in the store and starts no task.
UnmatchedArrivalsIgnored ==
    [][\/ UNCHANGED <<store, timers, term>>
       \/ ~\E c \in Chans, z \in Sizes : Unmatched(c) /\ handle_video(c, z)]_vars

\* videos can arrive in the channels of a duel that is scheduled
ScheduledDuelChannels ==
    /\ pend = Idle
    /\ nvid < MaxVideos
    /\ \E i \in 1..Len(store.duels) :
          /\ store.duels[i].status = "scheduled"
          /\ {store.duels[i].challenger_channel, store.duels[i].challenged_channel} = Chans

\* C21: a video smaller than VIDEO_MIN_SIZE in the channel of a participant of
\* an active duel takes exactly 3 points from that participant, sets its
\* penalty flag in the duel and leaves the duel active; every other field of
\* every player and the history are unchanged.
SmallArrivalPenalty ==
    [][\/ nvid' = nvid
       \/ \A c \in Chans, z \in Sizes :
          0 < z /\ z < VIDEO_MIN_SIZE /\ handle_video(c, z)
          => \E i \in 1..Len(store.duels) :
                LET duel == store.duels[i]
                    p    == IF c = duel.challenger_channel
                            THEN duel.challenger_id ELSE duel.challenged_id
                IN  /\ duel.status = "active"
                    /\ c \in {duel.challenger_channel, duel.challenged_channel}
                    /\ p \in Players
                    /\ store'.players =
                          [store.players EXCEPT ![p].points = @ - 3]
                    /\ Len(store'.duels) = Len(store.duels)
                    /\ store'.duels[i].status = "active"
                    /\ p \in store'.duels[i].penalty_flag
                    /\ \A j \in 1..Len(store.duels) :
                          j # i => store'.duels[j] = store.duels[j]
                    /\ store'.history = store.history]_vars

\* the challenger of an active duel has been penalized once, and nothing else
\* has happened to the scores
PenalizedOnce ==
    \E i \in 1..Len(store.duels) :
        LET duel == store.duels[i]
        IN  /\ duel.status = "active"
            /\ duel.penalty_flag = {duel.challenger_id}
            /\ store.players[duel.challenger_id] =
                  [NewPlayer EXCEPT !.points = 0 - 3,
                                    !.channel_id = duel.challenger_channel]
            /\ Points(duel.challenged_id) = 0
            /\ store.history = << >>

\* C22 as stated: the schedule instant of every stored duel that has one is
\* strictly later than its creation time plus 2 minutes.
ScheduleStrictlyAfterLead ==
    \A i \in 1..Len(store.duels) :
        store.duels[i].scheduled_ts # NoTime
        => store.duels[i].scheduled_ts > store.duels[i].created_at + 120

\* C22: the schedule instant of every stored duel that has one is at least 2
\* minutes after its creation time, and an instant exactly 2 minutes ahead
\* passes the check of /duel.
ScheduleAtLeastLead ==
    /\ \A i \in 1..Len(store.duels) :
          store.duels[i].scheduled_ts # NoTime
          => store.duels[i].scheduled_ts >= store.duels[i].created_at + 120
    /\ \A a \in Users, b \in Users :
          DuelCheck(store, a, b, now + 120, now) # "InvalidScheduleTime"

\* a stored duel scheduled exactly 2 minutes after its creation
ScheduledAtLead ==
    \E i \in 1..Len(store.duels) :
        /\ store.duels[i].scheduled_ts # NoTime
        /\ store.duels[i].scheduled_ts = store.duels[i].created_at + 120

\* C23: a step leaves the history as it is or appends exactly one entry to it,
\* and it appends only when a big video settles a duel, which is removed in
\* the same step; no entry is ever removed, moved or changed.
HistoryAppendOnly ==
    [][\/ store'.history = store.history
       \/ /\ Len(store'.history) = Len(store.history) + 1
          /\ SubSeq(store'.history, 1, Len(store.history)) = store.history
          /\ nvid' = nvid + 1
          /\ Len(store'.duels) = Len(store.duels) - 1
          /\ \E c \in Chans : handle_video(c, VIDEO_MIN_SIZE)]_vars

\* a settlement is logged, and a channel handler is suspended in its await
\* with a copy of the store
SettlementLogged ==
    /\ Len(store.history) = 1
    /\ Len(store.duels) = 0
    /\ pend.op = "await"

\* C24 as stated: no duel is cancelled by /cancel while it is active.
CancelOnlyBeforeActivation ==
    \A id \in DOMAIN term :
        \A n \in 1..Len(term[id]) : term[id][n] # "cancelled"

\* C24: a step after which an active duel is no longer an active duel of the
\* store is a big video on a channel of the duel, the firing of a video
\* timeout of its pair, a /cancel of one of its participants, or the save of a
\* channel handler that loaded the store before the duel was activated.
ActiveLeaves ==
    [][\/ store'.duels = store.duels
       \/ \A i \in 1..Len(store.duels) :
             LET duel == store.duels[i]
             IN  /\ duel.status = "active"
                 /\ ~\E j \in 1..Len(store'.duels) :
                        /\ store'.duels[j].id = duel.id
                        /\ store'.duels[j].status = "active"
                 => \/ \E c \in {duel.challenger_channel, duel.challenged_channel} :
                          handle_video(c, VIDEO_MIN_SIZE)
                    \/ \E tm \in timers :
                          tm.kind = "video" /\ tm.key = duel.key /\ duel_video_timeout(tm)
                    \/ \E u \in {duel.challenger_id, duel.challenged_id} :
                          cmd_cancel(u)
                    \/ /\ await_save
                       /\ \E j \in 1..Len(pend.data.duels) :
                             /\ pend.data.duels[j].id = duel.id
                             /\ pend.data.duels[j].status = "scheduled"]_vars

\* an active duel was removed by /cancel
ActiveCancelled ==
    \E id \in DOMAIN term : term[id] = <<"cancelled">>

\* C25: every stored duel is pending, scheduled or active, and it has a
\* started_at exactly when it is active; an /accept that changes the store
\* turns a pending duel of the caller into a scheduled one when the duel has a
\* schedule instant and into an active one otherwise.
StatusAndActivation ==
    /\ [](\A i \in 1..Len(store.duels) :
             /\ store.duels[i].status \in {"pending", "scheduled", "active"}
             /\ store.duels[i].started_at # NoTime <=> store.duels[i].status = "active")
    /\ [][\/ store'.duels = store.duels
          \/ ~\E u \in Callers, sent \in BOOLEAN : cmd_accept(u, sent)
          \/ \E i \in 1..Len(store.duels) :
                /\ store.duels[i].status = "pending"
                /\ Len(store'.duels) = Len(store.duels)
                /\ store'.duels[i].status =
                      IF store.duels[i].scheduled_ts # NoTime
                      THEN "scheduled" ELSE "active"]_vars

\* a duel with a schedule instant was accepted and then activated by its task
ScheduledThenActive ==
    \E i \in 1..Len(store.duels) :
        /\ store.duels[i].status = "active"
        /\ store.duels[i].scheduled_ts # NoTime
        /\ store.duels[i].started_at >= store.duels[i].scheduled_ts

\* C26: a /decline changes the store only when the caller is the challenged
\* participant of a pending duel, and then it removes that duel and nothing
\* else: players and history stay as they are.  A /decline of the challenger,
\* of anyone else, or on a scheduled or active duel changes nothing.
DeclineAuthorization ==
    [][\/ UNCHANGED <<store, timers>>
       \/ \A u \in Callers :
             cmd_decline(u)
             => \E i \in 1..Len(store.duels) :
                   /\ store.duels[i].challenged_id = u
                   /\ store.duels[i].status = "pending"
                   /\ store'.duels =
                         SubSeq(store.duels, 1, i - 1)
                         \o SubSeq(store.duels, i + 1, Len(store.duels))
                   /\ store'.players = store.players
                   /\ store'.history = store.history
                   /\ timers' = timers]_vars

\* the only duel created left the store while it was pending and before its
\* accept timeout was due
RemovedWhilePending ==
    /\ nextId = 2
    /\ store.duels = << >>
    /\ timers = {AcceptTask(duel_key(1, 2), 0)}
    /\ now < ACCEPT_TIMEOUT
    /\ pend = Idle

\* C27: a /cancel that changes the store removes exactly one duel, a duel of
\* the caller, in whichever status it is; the players with their points, wins,
\* losses and duels_played and the history stay as they are.
CancelChangesNoScore ==
    [][\/ UNCHANGED store
       \/ \A u \in Callers :
             cmd_cancel(u)
             => /\ store'.players = store.players
                /\ store'.history = store.history
                /\ \E i \in 1..Len(store.duels) :
                      /\ u \in {store.duels[i].challenger_id, store.duels[i].challenged_id}
                      /\ store.duels[i].status \in {"pending", "scheduled", "active"}
                      /\ store'.duels =
                            SubSeq(store.duels, 1, i - 1)
                            \o SubSeq(store.duels, i + 1, Len(store.duels))]_vars

\* a penalized participant's active duel was cancelled: the penalty stays, no
\* result is logged
CancelledAfterPenalty ==
    /\ \E id \in DOMAIN term : term[id] = <<"cancelled">>
    /\ store.duels = << >>
    /\ store.history = << >>
    /\ \E u \in Players : Points(u) = 0 - 3

\* a task of one of the kinds is asleep for the pair of the duel
Armed(duel, kinds) ==
    \E tm \in timers : tm.kind \in kinds /\ tm.key = duel.key

\* C28: a pending duel does not linger: as long as it is pending, the
\* accept-timeout task that will remove it is armed for it, also when the
\* reply that announces the duel failed after the duel was saved.
PendingDuelsArmed ==
    \A i \in 1..Len(store.duels) :
        store.duels[i].status = "pending" => Armed(store.duels[i], {"accept"})

\* C29: an accepted duel terminates: as long as it is scheduled, the task that
\* will activate it is armed for it, and as long as it is active, the
\* video-timeout task that will remove it is armed for it, also when the reply
\* that announces the acceptance failed after the new status was saved.
AcceptedDuelsArmed ==
    \A i \in 1..Len(store.duels) :
        /\ store.duels[i].status = "scheduled"
           => Armed(store.duels[i], {"remind", "start"})
        /\ store.duels[i].status = "active"
           => Armed(store.duels[i], {"video"})

\* C30: the reminder of a scheduled duel is sent only if more than 5 minutes
\* remained until its schedule instant when it was accepted: a step in which
\* the reminder task finds the duel of its pair scheduled, and so sends the
\* reminder, is a step for a duel whose schedule instant is the one the task
\* was started with and lies more than 5 minutes after the duel's creation.
ReminderOfOwnDuel ==
    [][\/ timers' = timers
       \/ \A tm \in timers :
             /\ tm.kind = "remind"
             /\ StillIn(store.duels, tm.key, "scheduled")
             /\ scheduled_duel_reminder(tm)
             => LET duel == DictGet(store.duels, tm.key)
                IN  /\ duel.scheduled_ts = tm.sts
                    /\ duel.scheduled_ts - 300 > duel.created_at]_vars

\* the sum of a counter over the players in S
RECURSIVE Total(_, _)
Total(S, counter) ==
    IF S = {} THEN 0
    ELSE LET u == CHOOSE x \in S : TRUE
         IN  store.players[u][counter] + Total(S \ {u}, counter)

\* C33: every player has duels_played = wins + losses, and the wins of all
\* players, the losses of all players and the entries of the history are
\* equally many.
CounterConsistency ==
    /\ \A u \in Players :
          store.players[u].duels_played = store.players[u].wins + store.players[u].losses
    /\ Total(Players, "wins") = Len(store.history)
    /\ Total(Players, "losses") = Len(store.history)

\* a duel has been settled: one player has a victory, the other a defeat
OneWonOneLost ==
    /\ Len(store.history) = 1
    /\ \E u \in Players, v \in Players :
          /\ u # v
          /\ store.players[u].wins = 1 /\ store.players[u].duels_played = 1
          /\ store.players[v].losses = 1 /\ store.players[v].duels_played = 1

\* C36: the participants of every stored duel are two different players and
\* the duel is stored under the key made of the smaller and then the larger of
\* their identities; the key of a against b is the key of b against a.
CanonicalPairKey ==
    /\ \A i \in 1..Len(store.duels) :
          LET duel == store.duels[i]
          IN  /\ duel.challenger_id # duel.challenged_id
              /\ duel.key[1] < duel.key[2]
              /\ {duel.key[1], duel.key[2]} = {duel.challenger_id, duel.challenged_id}
    /\ \A a \in Users, b \in Users : duel_key(a, b) = duel_key(b, a)

\* the duel of a challenger with the larger identity is stored: the key is not
\* in the order of the command
LargerChallenged ==
    \E i \in 1..Len(store.duels) :
        /\ store.duels[i].challenger_id > store.duels[i].challenged_id
        /\ store.duels[i].key = <<store.duels[i].challenged_id, store.duels[i].challenger_id>>

\* C31: the penalty flags belong to the duel instance.  A duel that is not
\* active has no flag; a participant flagged in an instance after a step was
\* flagged in that instance before it or is penalized in that step (or the
\* step is the save of a channel handler, which writes back its copy); and the
\* winner of a settlement who has no flag in the settled duel gets 3 points,
\* whatever happened in earlier duels.
PenaltyFlagsPerInstance ==
    /\ [](\A i \in 1..Len(store.duels) :
             store.duels[i].status # "active" => store.duels[i].penalty_flag = {})
    /\ [][\/ store'.duels = store.duels
          \/ await_save
          \/ \A j \in 1..Len(store'.duels) :
                \A p \in store'.duels[j].penalty_flag :
                   \E i \in 1..Len(store.duels) :
                      /\ store.duels[i].id = store'.duels[j].id
                      /\ \/ p \in store.duels[i].penalty_flag
                         \/ store'.players[p].points = Points(p) - 3]_vars
    /\ [][\/ store'.history = store.history
          \/ \E i \in SettledBy(LastEntry) :
                LastEntry.winner \notin store.duels[i].penalty_flag
                => /\ LastEntry.points_won = 3
                   /\ store'.players[LastEntry.winner].points
                         = Points(LastEntry.winner) + 3]_vars

\* every duel so far was of one pair; its first duel was cancelled while
\* active, after a penalty of the player who then won the second one: -3 + 3
FreshFlagsInRematch ==
    /\ Len(store.history) = 1
    /\ store.history[1].points_won = 3
    /\ Points(store.history[1].winner) = 0
    /\ Points(store.history[1].loser) = 0 - 1
    /\ term[1] = <<"cancelled">>
    /\ term[2] = <<"settled">>
    /\ \A tm \in timers :
          tm.key = duel_key(store.history[1].winner, store.history[1].loser)

\* C32: a video that changes the store is matched to one active duel with that
\* channel: that duel is penalized in (and stays) or settled (and removed), by
\* at most one history entry; every other duel of the store is in the store
\* afterwards as it was, and the players outside that duel are unchanged.
OneArrivalOneDuel ==
    [][\/ nvid' = nvid
       \/ \A c \in LeagueChans, z \in Sizes :
             handle_video(c, z)
             => \E i \in 1..Len(store.duels) :
                   LET duel == store.duels[i]
                       rest == SubSeq(store.duels, 1, i - 1)
                               \o SubSeq(store.duels, i + 1, Len(store.duels))
                   IN  /\ duel.status = "active"
                       /\ c \in {duel.challenger_channel, duel.challenged_channel}
                       /\ \/ /\ store'.duels = rest
                             /\ Len(store'.history) = Len(store.history) + 1
                          \/ /\ Len(store'.duels) = Len(store.duels)
                             /\ store'.duels[i].id = duel.id
                             /\ \A j \in 1..Len(store.duels) :
                                   j # i => store'.duels[j] = store.duels[j]
                             /\ store'.history = store.history
                       /\ \A u \in Players \ {duel.challenger_id, duel.challenged_id} :
                             store'.players[u] = store.players[u]]_vars

\* a player has two active duels, against different opponents, and was
\* penalized by one arrival: it is flagged in one of the duels only
PenalizedInOneOfTwo ==
    \E i, j \in 1..Len(store.duels) : \E u \in Players :
        /\ i # j
        /\ store.duels[i].status = "active"
        /\ store.duels[j].status = "active"
        /\ u \in {store.duels[i].challenger_id, store.duels[i].challenged_id}
        /\ u \in {store.duels[j].challenger_id, store.duels[j].challenged_id}
        /\ store.duels[i].penalty_flag = {u}
        /\ store.duels[j].penalty_flag = {}
        /\ store.duels[j].video_timestamps = {}
        /\ Points(u) = 0 - 3
        /\ nvid = 1

\* C35: an /accept that changes the store changes exactly one duel, a pending
\* duel challenging the caller, which becomes scheduled or active; every other
\* duel, the other pending duels challenging the caller among them, is as it
\* was, and at most one task is started.
AcceptOneDuel ==
    [][\/ store' = store
       \/ \A u \in League, sent \in BOOLEAN :
             cmd_accept(u, sent)
             => /\ Len(store'.duels) = Len(store.duels)
                /\ \E i \in 1..Len(store.duels) :
                      /\ store.duels[i].challenged_id = u
                      /\ store.duels[i].status = "pending"
                      /\ store'.duels[i].status \in {"scheduled", "active"}
                      /\ \A j \in 1..Len(store.duels) :
                            j # i => store'.duels[j] = store.duels[j]
                /\ Cardinality(timers' \ timers) <= 1
                /\ timers \subseteq timers']_vars

\* two players challenged the same player, who accepted once: one duel is
\* active, the other still pending
AcceptedOneOfTwo ==
    \E i, j \in 1..Len(store.duels) :
        /\ store.duels[i].challenged_id = store.duels[j].challenged_id
        /\ store.duels[i].challenger_id # store.duels[j].challenger_id
        /\ store.duels[i].status = "active"
        /\ store.duels[j].status = "pending"

\* C34: the two channels of every stored duel are different, so that a video
\* on a channel of the duel is the video of one participant.
DistinctDuelChannels ==
    \A i \in 1..Len(store.duels) :
        store.duels[i].challenger_channel # store.duels[i].challenged_channel

====
